---- MODULE Spec2Model ----
(***************************************************************************)
(* Model of the two aggregation scripts of the repository:                 *)
(*   scripty/aggregate_contracts.py  (cost/profit netting, CSV)            *)
(*   scripty/process_excel.py        (position reconstruction, Excel)      *)
(*                                                                         *)
(* Text is modelled as a sequence of one-character strings.  The Chinese   *)
(* field names and side markers of the source are written in ASCII:        *)
(*   "contract" = 合约, "amount" = 成交额, "pnl" = 已实现盈亏,             *)
(*   "buy" = 买, "sell" = 卖, "open" = 开, "long" = 多, "short" = 空,      *)
(*   "close" = 平, "in" = 入, "out" = 出, "pos" = 仓.                      *)
(* Decimal values are the finite decimals the inputs can spell (integers   *)
(* here); quotients are kept as exact fractions [n, d].                    *)
(* Both runs start where the input has been located: at load_rows for the  *)
(* CSV script, after pd.read_excel for the Excel script.                   *)
(***************************************************************************)
EXTENDS Integers, Sequences, FiniteSets, TLC

\* ------------------------------------------------------------------ bounds
MaxRows == 2        \* rows of one CSV batch
MaxOrders == 2      \* rows of one Excel sheet

VARIABLES
  \* --- aggregate_contracts.py
  entry,        \* "main" (command line) or "aggregate_contracts" (called directly)
  fieldnames,   \* csv.DictReader.fieldnames: [none |-> TRUE] for an empty file
  rows,         \* the rows of the input, in file order
  pc,           \* position of the run
  idx,          \* number of rows the loop of aggregate_contracts has taken
  totals,       \* OrderedDict values: contract -> [cost, profit]
  order,        \* OrderedDict key order (first insertion)
  error,        \* the field names the ValueError message lists
  output,       \* lines written by write_output
  \* --- process_excel.py
  df,           \* the sheet read by pd.read_excel
  df_clean,     \* after dropna / header filter
  symbols,      \* df_clean['合约'].unique()
  si,           \* number of symbols the loop has taken
  frames,       \* locals of the loop body, per symbol that reached line 49
  trades,       \* the summaries appended so far
  ppc           \* position of process_trading_data

netvars == <<entry, fieldnames, rows, pc, idx, totals, order, error, output>>
posvars == <<df, df_clean, symbols, si, frames, trades, ppc>>
vars == <<entry, fieldnames, rows, pc, idx, totals, order, error, output,
          df, df_clean, symbols, si, frames, trades, ppc>>

\* ------------------------------------------------------------ text helpers
Str(s) == [k |-> "str", s |-> s]
NoneCell == [k |-> "none", s |-> <<>>]       \* key present, value None
AbsentCell == [k |-> "absent", s |-> <<>>]   \* key not in the dict

Whitespace == {" "}

RECURSIVE lstrip(_)
lstrip(s) ==
  IF s = <<>> THEN s
  ELSE IF Head(s) \in Whitespace THEN lstrip(Tail(s)) ELSE s

RECURSIVE rstrip(_)
rstrip(s) ==
  IF s = <<>> THEN s
  ELSE IF s[Len(s)] \in Whitespace THEN rstrip(SubSeq(s, 1, Len(s) - 1)) ELSE s

strip(s) == rstrip(lstrip(s))

RECURSIVE replace_commas(_)
replace_commas(s) ==
  IF s = <<>> THEN s
  ELSE IF Head(s) = "," THEN replace_commas(Tail(s))
       ELSE <<Head(s)>> \o replace_commas(Tail(s))

DigitValue ==
  [c \in {"0", "1", "2", "3", "4", "5", "6", "7", "8", "9"} |->
     CASE c = "0" -> 0 [] c = "1" -> 1 [] c = "2" -> 2 [] c = "3" -> 3
       [] c = "4" -> 4 [] c = "5" -> 5 [] c = "6" -> 6 [] c = "7" -> 7
       [] c = "8" -> 8 [] c = "9" -> 9]

IsDigits(s) == s # <<>> /\ \A i \in 1..Len(s) : s[i] \in DOMAIN DigitValue

RECURSIVE DigitsValue(_)
DigitsValue(s) ==
  IF s = <<>> THEN 0
  ELSE 10 * DigitsValue(SubSeq(s, 1, Len(s) - 1)) + DigitValue[s[Len(s)]]

\* Decimal(text): [ok, v]; ok = FALSE stands for InvalidOperation
Decimal(text) ==
  IF IsDigits(text) THEN [ok |-> TRUE, v |-> DigitsValue(text)]
  ELSE IF text # <<>> /\ Head(text) = "-" /\ IsDigits(Tail(text))
       THEN [ok |-> TRUE, v |-> 0 - DigitsValue(Tail(text))]
  ELSE IF text # <<>> /\ Head(text) = "+" /\ IsDigits(Tail(text))
       THEN [ok |-> TRUE, v |-> DigitsValue(Tail(text))]
  ELSE [ok |-> FALSE, v |-> 0]

parse_decimal(value) ==
  IF value.k # "str" THEN 0
  ELSE LET text == strip(value.s) IN
       IF text = <<>> THEN 0
       ELSE LET d == Decimal(replace_commas(text)) IN
            IF d.ok THEN d.v ELSE 0

\* --------------------------------------------------- ContractAggregation
ContractAggregation == [cost |-> 0, profit |-> 0]

\* slip: the amount replaces the running cost
add_cost_overwrite(self, amount) == [self EXCEPT !.cost = amount]

add_cost(self, amount) == [self EXCEPT !.cost = self.cost + amount]

\* slip: the running profit is reset to the amount
add_profit_reset(self, amount) == [self EXCEPT !.profit = amount]

add_profit(self, amount) == [self EXCEPT !.profit = self.profit + amount]

\* a / b as an exact fraction with positive denominator
Quotient(a, b) == IF b < 0 THEN [n |-> 0 - a, d |-> 0 - b] ELSE [n |-> a, d |-> b]

\* slip: no guard for a zero cost
yield_ratio_noguard(self) ==
  IF self.cost = 0 THEN [raised |-> TRUE, n |-> 0, d |-> 1]
  ELSE [raised |-> FALSE, n |-> Quotient(self.profit, self.cost).n,
        d |-> Quotient(self.profit, self.cost).d]

\* [raised, n, d]: raised stands for decimal.DivisionByZero
yield_ratio(self) ==
  IF self.cost = 0 THEN [raised |-> FALSE, n |-> 0, d |-> 1]
  ELSE [raised |-> FALSE, n |-> Quotient(self.profit, self.cost).n,
        d |-> Quotient(self.profit, self.cost).d]

\* ------------------------------------------------------ aggregate_contracts
EmptyTotals == [c \in {} |-> ContractAggregation]

\* slip: the notional is counted as cost on every row
AggregateStep_both(st, row) ==
  IF st.failed THEN st
  ELSE IF row.contract.k = "none"
       THEN [st EXCEPT !.failed = TRUE]
  ELSE LET contract == strip(row.contract.s) IN
       IF contract = <<>> THEN st
       ELSE LET pnl == parse_decimal(row.pnl)
                amount == parse_decimal(row.amount)
                isnew == contract \notin DOMAIN st.totals
                bucket == IF isnew THEN ContractAggregation ELSE st.totals[contract]
                updated == IF pnl = 0 THEN add_cost(bucket, amount)
                           ELSE add_profit(add_cost(bucket, amount), pnl)
            IN [totals |-> [c \in DOMAIN st.totals \cup {contract} |->
                              IF c = contract THEN updated ELSE st.totals[c]],
                order |-> IF isnew THEN Append(st.order, contract) ELSE st.order,
                failed |-> FALSE]

\* one pass of the loop body over `row`; st = [totals, order, failed]
AggregateStep(st, row) ==
  IF st.failed THEN st
  ELSE IF row.contract.k = "none"
       THEN [st EXCEPT !.failed = TRUE]      \* None.strip(): AttributeError
  ELSE LET contract == strip(row.contract.s) IN  \* absent key: default ""
       IF contract = <<>> THEN st
       ELSE LET pnl == parse_decimal(row.pnl)
                amount == parse_decimal(row.amount)
                isnew == contract \notin DOMAIN st.totals
                bucket == IF isnew THEN ContractAggregation ELSE st.totals[contract]
                updated == IF pnl = 0 THEN add_cost(bucket, amount)
                           ELSE add_profit(bucket, pnl)
            IN [totals |-> [c \in DOMAIN st.totals \cup {contract} |->
                              IF c = contract THEN updated ELSE st.totals[c]],
                order |-> IF isnew THEN Append(st.order, contract) ELSE st.order,
                failed |-> FALSE]

RECURSIVE aggregate_contracts(_)
aggregate_contracts(rs) ==
  IF rs = <<>> THEN [totals |-> EmptyTotals, order |-> <<>>, failed |-> FALSE]
  ELSE AggregateStep(aggregate_contracts(SubSeq(rs, 1, Len(rs) - 1)), rs[Len(rs)])

\* ---------------------------------------------------------------- load_rows
Required == {"contract", "amount", "pnl"}

\* the set comprehension of line 127
MissingFields(fn) == {field \in Required : field \notin fn.names}

\* --------------------------------------------------------- format / output
Scale6 == 1000000

\* quantize(q / d) to `unit` parts of one, ROUND_HALF_UP (ties away from zero)
RoundHalfUp(n, d, unit) ==
  LET a == IF n < 0 THEN 0 - n ELSE n
      q == (2 * a * unit + d) \div (2 * d)
  IN IF n < 0 THEN 0 - q ELSE q

format_decimal(n, d) == RoundHalfUp(n, d, Scale6)

OutputLine(contract, aggregation) ==
  [contract |-> contract,
   cost |-> format_decimal(aggregation.cost, 1),
   profit |-> format_decimal(aggregation.profit, 1),
   yield |-> format_decimal(yield_ratio(aggregation).n, yield_ratio(aggregation).d)]

HEADER == [contract |-> <<"H">>, cost |-> 0, profit |-> 0, yield |-> 0]

\* ------------------------------------------------------------------ inputs
ContractCells == {Str(<<"B">>), Str(<<"B", " ">>), Str(<<"E">>)}
BlankContractCells == {Str(<<" ">>), Str(<<>>)}
PnlCells == {NoneCell, Str(<<"x">>), Str(<<" ", "5">>), Str(<<"-", "3">>)}
AmountCells == {Str(<<"2">>), Str(<<"-", "2">>), Str(<<"1", ",", "0">>)}

Row(c, p, a) == [contract |-> c, pnl |-> p, amount |-> a]

\* rows csv.DictReader can yield under a complete header
CsvRows ==
  {Row(c, p, a) : c \in ContractCells, p \in PnlCells, a \in AmountCells}
  \cup {Row(c, Str(<<"5">>), Str(<<"2">>)) : c \in BlankContractCells}
  \cup {Row(NoneCell, NoneCell, NoneCell)}          \* a short row

\* dicts a direct caller can pass: keys may also be absent
DictRows == CsvRows \cup {Row(AbsentCell, Str(<<"5">>), Str(<<"2">>)),
                          Row(Str(<<"E">>), AbsentCell, AbsentCell)}

SeqsUpTo(S, n) == UNION {[1..m -> S] : m \in 0..n}

FieldChoices ==
  {[none |-> TRUE, names |-> {}]}
  \cup {[none |-> FALSE, names |-> s] : s \in SUBSET Required}

\* a row of a file whose header lacks a column has no such key
Project(row, fn) ==
  [contract |-> IF "contract" \in fn.names THEN row.contract ELSE AbsentCell,
   pnl |-> IF "pnl" \in fn.names THEN row.pnl ELSE AbsentCell,
   amount |-> IF "amount" \in fn.names THEN row.amount ELSE AbsentCell]

PosIdle ==
  /\ df = <<>> /\ df_clean = <<>> /\ symbols = <<>> /\ si = 0
  /\ frames = <<>> /\ trades = <<>> /\ ppc = "idle"

NetInit ==
  /\ idx = 0
  /\ totals = EmptyTotals
  /\ order = <<>>
  /\ error = {}
  /\ output = <<>>
  /\ \/ /\ entry = "main"
        /\ pc = "load"
        /\ fieldnames \in FieldChoices
        /\ \E rs \in SeqsUpTo(CsvRows, MaxRows) :
             rows = IF fieldnames.none THEN <<>>
                    ELSE [i \in 1..Len(rs) |-> Project(rs[i], fieldnames)]
     \/ /\ entry = "aggregate_contracts"
        /\ pc = "aggregate"
        /\ fieldnames = [none |-> TRUE, names |-> {}]
        /\ rows \in SeqsUpTo(DictRows, MaxRows)
  /\ PosIdle

\* ------------------------------------------------------------------ actions
\* load_rows, lines 124-131, driven by list(...) in main (line 163)
LoadRows ==
  /\ pc = "load"
  /\ IF fieldnames.none
     THEN \* `field not in None` is evaluated first: TypeError
          /\ pc' = "TypeError"
          /\ error' = {}
     ELSE IF MissingFields(fieldnames) # {}
     THEN /\ pc' = "ValueError"
          /\ error' = MissingFields(fieldnames)
     ELSE /\ pc' = "aggregate"
          /\ error' = {}
  /\ UNCHANGED <<entry, fieldnames, rows, idx, totals, order, output>>
  /\ UNCHANGED posvars

\* one iteration of the loop of aggregate_contracts, lines 106-119
AggregateRow ==
  /\ pc = "aggregate"
  /\ idx < Len(rows)
  /\ LET st == AggregateStep([totals |-> totals, order |-> order, failed |-> FALSE],
                             rows[idx + 1])
     IN /\ totals' = st.totals
        /\ order' = st.order
        /\ pc' = IF st.failed THEN "AttributeError" ELSE "aggregate"
  /\ idx' = idx + 1
  /\ UNCHANGED <<entry, fieldnames, rows, error, output>>
  /\ UNCHANGED posvars

\* line 121: the loop is exhausted, totals is returned
AggregateReturn ==
  /\ pc = "aggregate"
  /\ idx = Len(rows)
  /\ pc' = IF entry = "main" THEN "write" ELSE "returned"
  /\ UNCHANGED <<entry, fieldnames, rows, idx, totals, order, error, output>>
  /\ UNCHANGED posvars

\* write_output, lines 139-150
WriteOutput ==
  /\ pc = "write"
  /\ IF \E i \in 1..Len(order) : yield_ratio(totals[order[i]]).raised
     THEN /\ pc' = "DivisionByZero"
          /\ output' = <<HEADER>>
     ELSE /\ pc' = "done"
          /\ output' = <<HEADER>> \o
                       [i \in 1..Len(order) |-> OutputLine(order[i], totals[order[i]])]
  /\ UNCHANGED <<entry, fieldnames, rows, idx, totals, order, error>>
  /\ UNCHANGED posvars

NetNext == LoadRows \/ AggregateRow \/ AggregateReturn \/ WriteOutput

SpecNet == NetInit /\ [][NetNext]_vars

\* =================================================================
\* Properties of aggregate_contracts.py
\* =================================================================
CostOf(t, c) == IF c \in DOMAIN t THEN t[c].cost ELSE 0
ProfitOf(t, c) == IF c \in DOMAIN t THEN t[c].profit ELSE 0

\* the loop body runs on rows[idx'] in this step
TakesRow == pc = "aggregate" /\ idx' = idx + 1

HasContract(row) == row.contract.k = "str" /\ strip(row.contract.s) # <<>>

\* C1: a row with a non-empty trimmed contract adds its parsed notional to
\* that contract's cost when its parsed realized P&L is zero (profit
\* unchanged), otherwise adds the realized P&L to that contract's profit
\* (cost unchanged); no accumulator of another contract changes.
C1_RowFeedsOneAccumulator ==
  [][TakesRow /\ HasContract(rows[idx']) =>
       LET row == rows[idx']
           c == strip(row.contract.s)
           pnl == parse_decimal(row.pnl)
           amount == parse_decimal(row.amount)
       IN /\ c \in DOMAIN totals'
          /\ IF pnl = 0
             THEN /\ totals'[c].cost = CostOf(totals, c) + amount
                  /\ totals'[c].profit = ProfitOf(totals, c)
             ELSE /\ totals'[c].profit = ProfitOf(totals, c) + pnl
                  /\ totals'[c].cost = CostOf(totals, c)
          /\ DOMAIN totals' = DOMAIN totals \cup {c}
          /\ \A o \in DOMAIN totals \ {c} : totals'[o] = totals[o]]_vars

\* a contract that has received both a cost row and a profit row
C1_Witness ==
  /\ idx = 2
  /\ \E c \in DOMAIN totals : totals[c].cost # 0 /\ totals[c].profit # 0

\* C2: yield_ratio() is profit/cost when cost is non-zero, exactly zero when
\* cost is zero, and never raises.
C2_YieldRatio ==
  \A c \in DOMAIN totals :
    LET y == yield_ratio(totals[c]) IN
      /\ ~y.raised
      /\ y.d > 0
      /\ IF totals[c].cost # 0
         THEN y.n * totals[c].cost = totals[c].profit * y.d
         ELSE y.n = 0

\* the cost of a contract has netted to zero from non-zero notionals and the
\* result has been written
C2_Witness ==
  /\ pc = "done"
  /\ \E c \in DOMAIN totals :
       /\ totals[c].cost = 0
       /\ \E i \in 1..Len(rows) :
            /\ HasContract(rows[i]) /\ strip(rows[i].contract.s) = c
            /\ parse_decimal(rows[i].pnl) = 0
            /\ parse_decimal(rows[i].amount) # 0
       /\ \E i \in 2..Len(output) : output[i].contract = c /\ output[i].yield = 0

Permuted(rs, p) == [i \in 1..Len(rs) |-> rs[p[i]]]

\* the trimmed non-empty contract identifiers in order of first appearance
RECURSIVE FirstSeen(_)
FirstSeen(rs) ==
  IF rs = <<>> THEN <<>>
  ELSE LET before == FirstSeen(SubSeq(rs, 1, Len(rs) - 1))
           last == rs[Len(rs)]
       IN IF HasContract(last)
             /\ \A i \in 1..Len(before) : before[i] # strip(last.contract.s)
          THEN Append(before, strip(last.contract.s))
          ELSE before

\* C3: every permutation of the rows gives the same contracts with the same
\* cost and profit; the order of the contracts is that of first appearance
\* in the sequence supplied.
C3_OrderIndependent ==
  /\ (pc \in {"write", "done", "returned"}) =>
       /\ order = FirstSeen(rows)
       /\ \A p \in Permutations(1..Len(rows)) :
            LET r == aggregate_contracts(Permuted(rows, p)) IN
              /\ ~r.failed
              /\ DOMAIN r.totals = DOMAIN totals
              /\ \A c \in DOMAIN totals :
                   /\ r.totals[c].cost = totals[c].cost
                   /\ r.totals[c].profit = totals[c].profit
              /\ r.order = FirstSeen(Permuted(rows, p))
  \* a batch that raises does so in every order
  /\ (pc = "AttributeError") =>
       \A p \in Permutations(1..Len(rows)) :
         aggregate_contracts(Permuted(rows, p)).failed

\* two contracts were seen, so a permutation changes the order of the result
C3_Witness ==
  /\ pc \in {"done", "returned"}
  /\ Len(rows) = 2
  /\ Len(order) = 2

\* C4 (as claimed): a field set lacking a required field, or no field names
\* at all, ends the run in the schema error naming the missing fields, with
\* no row aggregated and nothing written.
C4_SchemaErrorNamesMissing ==
  (entry = "main" /\ pc # "load"
     /\ (fieldnames.none \/ ~(Required \subseteq fieldnames.names))) =>
    /\ pc = "ValueError"
    /\ error = IF fieldnames.none THEN Required ELSE Required \ fieldnames.names
    /\ idx = 0
    /\ totals = EmptyTotals
    /\ output = <<>>

\* C5 (as claimed): a row whose contract is empty, whitespace-only or missing
\* is skipped: no entry, no accumulator change, and the loop goes on.
C5_BlankContractSkipped ==
  [][TakesRow /\ ~HasContract(rows[idx']) =>
       /\ totals' = totals
       /\ order' = order
       /\ pc' = "aggregate"]_vars

\* C10 (as claimed): no accumulator ever decreases.
C10_NeverDecremented ==
  [][\A c \in DOMAIN totals' :
       /\ totals'[c].cost >= CostOf(totals, c)
       /\ totals'[c].profit >= ProfitOf(totals, c)]_vars

\* C10 (amended): accumulators start at zero, no contract is dropped, and an
\* accumulator goes down only by a row of that contract adding a negative
\* amount to it: cost by a negative notional on a zero-P&L row, profit by a
\* negative realized P&L; it is then lowered by exactly that amount.
C10_DecreaseOnlyByNegativeAmount ==
  [][/\ DOMAIN totals \subseteq DOMAIN totals'
     /\ \A c \in DOMAIN totals' :
          LET row == rows[idx']
              mine == TakesRow /\ HasContract(row) /\ strip(row.contract.s) = c
          IN /\ \/ totals'[c].cost >= CostOf(totals, c)
                \/ /\ mine
                   /\ parse_decimal(row.pnl) = 0
                   /\ parse_decimal(row.amount) < 0
                   /\ totals'[c].cost = CostOf(totals, c) + parse_decimal(row.amount)
             /\ \/ totals'[c].profit >= ProfitOf(totals, c)
                \/ /\ mine
                   /\ parse_decimal(row.pnl) < 0
                   /\ totals'[c].profit = ProfitOf(totals, c) + parse_decimal(row.pnl)
             /\ (mine /\ parse_decimal(row.pnl) > 0) =>
                   totals'[c].profit > ProfitOf(totals, c)]_vars

\* a profit that was positive has been lowered by a loss row
C10_Witness ==
  /\ idx = 2
  /\ \E c \in DOMAIN totals :
       /\ HasContract(rows[1]) /\ strip(rows[1].contract.s) = c
       /\ HasContract(rows[2]) /\ strip(rows[2].contract.s) = c
       /\ parse_decimal(rows[1].pnl) > 0
       /\ parse_decimal(rows[2].pnl) < 0
       /\ totals[c].profit = parse_decimal(rows[1].pnl) + parse_decimal(rows[2].pnl)

\* =================================================================
\* process_excel.py
\* =================================================================
\* a spreadsheet cell: empty (NaN), a number, or text
NaN == [k |-> "nan", s |-> <<>>, v |-> 0]
Num(v) == [k |-> "num", s |-> <<>>, v |-> v]
Text(s) == [k |-> "str", s |-> s, v |-> 0]

isna(cell) == cell.k = "nan"

\* pd.to_numeric(cell, errors='coerce'): [ok, v], ok = FALSE is NaN
to_numeric(cell) ==
  IF cell.k = "num" THEN [ok |-> TRUE, v |-> cell.v]
  ELSE IF cell.k = "str" THEN Decimal(strip(cell.s))
  ELSE [ok |-> FALSE, v |-> 0]

\* `sub in s` / str.contains(sub) on text
Contains(s, sub) ==
  \E i \in 0..(Len(s) - Len(sub)) : SubSeq(s, i + 1, i + Len(sub)) = sub

buy == <<"buy">>
sell == <<"sell">>
open_long == <<"open", "long">>
open_short == <<"open", "short">>
close == <<"close">>

\* Series.str.contains('a|b', na=False) for one cell
str_contains(cell, a, b) ==
  cell.k = "str" /\ (Contains(cell.s, a) \/ Contains(cell.s, b))

\* lines 25-29: dropna on time and order number, then drop repeated header rows
HeaderText == <<"h", "d", "r">>
CleanRow(r) == ~isna(r.time) /\ ~isna(r.ordno) /\ r.ordno # Text(HeaderText)
Clean(frame) == SelectSeq(frame, CleanRow)

\* df_clean['合约'].unique(): values in order of first appearance
RECURSIVE unique(_)
unique(frame) ==
  IF frame = <<>> THEN <<>>
  ELSE LET before == unique(SubSeq(frame, 1, Len(frame) - 1))
           x == frame[Len(frame)].symbol
       IN IF \E i \in 1..Len(before) : before[i] = x THEN before
          ELSE Append(before, x)

\* line 41: the rows of `symbol`, in any order that is sorted by time
\* (sort_values uses an unstable sort: rows of equal time may come either way)
SortedBySymbol(frame, symbol) ==
  LET I == {i \in 1..Len(frame) : frame[i].symbol = symbol}
      n == Cardinality(I)
  IN {[j \in 1..n |-> frame[f[j]]] :
        f \in {g \in [1..n -> I] :
                 /\ \A a, b \in 1..n : a # b => g[a] # g[b]
                 /\ \A a, b \in 1..n : a < b => frame[g[a]].time.v <= frame[g[b]].time.v}}

\* line 44
PositiveAmount(r) == to_numeric(r.amount).ok /\ to_numeric(r.amount).v > 0

\* slip: the direction is read off the latest row
is_long_last(symbol_df) ==
  LET first_order == symbol_df[Len(symbol_df)].side
  IN Contains(first_order.s, buy) \/ Contains(first_order.s, open_long)

\* lines 50-51; only evaluated when the side of the first row is text
is_long(symbol_df) ==
  LET first_order == symbol_df[1].side
  IN Contains(first_order.s, buy) \/ Contains(first_order.s, open_long)

\* line 51 on an empty side cell: `'买' in nan` raises TypeError
FirstOrderRaises(symbol_df) == symbol_df[1].side.k # "str"

\* lines 55-62
IsOpen(long, r) ==
  IF long THEN str_contains(r.side, buy, open_long)
  ELSE str_contains(r.side, sell, open_short)

IsClose(long, r) ==
  IF long THEN str_contains(r.side, sell, close)
  ELSE str_contains(r.side, buy, close)

OpenOrders(symbol_df, long) ==
  LET k(r) == IsOpen(long, r) IN SelectSeq(symbol_df, k)

CloseOrders(symbol_df, long) ==
  LET k(r) == IsClose(long, r) IN SelectSeq(symbol_df, k)

\* dropna(subset=[price, quantity]): only empty cells are dropped
NotNaPriceQty(r) == ~isna(r.price) /\ ~isna(r.qty)
dropna(orders) == SelectSeq(orders, NotNaPriceQty)

QtyOf(r) == to_numeric(r.qty)
AmountOf(r) == to_numeric(r.amount)
\* the product of two coerced columns is NaN where either factor is
PriceQtyOf(r) ==
  [ok |-> to_numeric(r.price).ok /\ to_numeric(r.qty).ok,
   v |-> to_numeric(r.price).v * to_numeric(r.qty).v]

\* Series.sum() of a coerced column: NaN entries are skipped
RECURSIVE sum(_)
sum(column) ==
  IF column = <<>> THEN 0
  ELSE sum(Tail(column)) + (IF Head(column).ok THEN Head(column).v ELSE 0)

SumQty(orders) == sum([i \in 1..Len(orders) |-> QtyOf(orders[i])])
SumAmount(orders) == sum([i \in 1..Len(orders) |-> AmountOf(orders[i])])
SumPriceQty(orders) == sum([i \in 1..Len(orders) |-> PriceQtyOf(orders[i])])

Zero == [n |-> 0, d |-> 1]

\* lines 69-76 and 83-90: [avg_price, total_amount] of one leg
LegStats(orders) ==
  LET valid == dropna(orders)
      total_quantity == SumQty(valid)
  IN IF Len(orders) > 0 /\ Len(valid) > 0
     THEN [avg_price |-> IF total_quantity > 0
                         THEN [n |-> SumPriceQty(valid), d |-> total_quantity]
                         ELSE Zero,
           total_amount |-> SumAmount(valid)]
     ELSE [avg_price |-> Zero, total_amount |-> 0]

NoTime == 0    \* start_time = None

MinTime(orders) ==
  CHOOSE t \in {orders[i].time.v : i \in 1..Len(orders)} :
    \A i \in 1..Len(orders) : t <= orders[i].time.v

MaxTime(orders) ==
  CHOOSE t \in {orders[i].time.v : i \in 1..Len(orders)} :
    \A i \in 1..Len(orders) : t >= orders[i].time.v

\* lines 49-111: the summary of one contract from its filtered, sorted rows.
\* The profit rate is kept as the exact fraction profit*100/open_total; its
\* rendering to two digits (line 109) is not modelled.
Summary(symbol, symbol_df) ==
  LET long == is_long(symbol_df)
      open_orders == OpenOrders(symbol_df, long)
      close_orders == CloseOrders(symbol_df, long)
      open == LegStats(open_orders)
      clos == LegStats(close_orders)
      start_time == IF Len(open_orders) > 0 THEN MinTime(open_orders) ELSE NoTime
      end_time == IF Len(close_orders) > 0 THEN MaxTime(close_orders) ELSE start_time
      profit_amount == IF long THEN clos.total_amount - open.total_amount
                       ELSE open.total_amount - clos.total_amount
  IN [symbol |-> symbol,
      start |-> start_time,
      end |-> end_time,
      direction |-> IF long THEN "long" ELSE "short",
      open_avg_price |-> open.avg_price,
      open_total_amount |-> open.total_amount,
      close_avg_price |-> clos.avg_price,
      close_total_amount |-> clos.total_amount,
      profit_rate |-> IF open.total_amount > 0
                      THEN [n |-> profit_amount * 100, d |-> open.total_amount]
                      ELSE Zero,
      profit_amount |-> profit_amount]

\* the locals of one iteration that reached line 53
Frame(symbol_df) ==
  [symbol_df |-> symbol_df,
   is_long |-> is_long(symbol_df),
   open_orders |-> OpenOrders(symbol_df, is_long(symbol_df)),
   close_orders |-> CloseOrders(symbol_df, is_long(symbol_df))]

\* ------------------------------------------------------------------ inputs
Symbols == {Text(<<"E">>), Text(<<"B">>)}
Times == {Num(1), Num(2)}
OrderId == Text(<<"7">>)

BuyOpenLong == Text(<<"buy", "in", "open", "long">>)        \* 买入开多
SellCloseLong == Text(<<"sell", "out", "close", "long">>)   \* 卖出平多
BuyCloseShort == Text(<<"buy", "in", "close", "short">>)    \* 买入平空
SellOpenShort == Text(<<"sell", "out", "open", "short">>)   \* 卖出开空
ClosePos == Text(<<"close", "pos">>)                        \* 平仓
Sides == {BuyOpenLong, SellCloseLong, BuyCloseShort, SellOpenShort, ClosePos, NaN}

Fill(q, p, a) == [qty |-> q, price |-> p, amount |-> a]
PlainFill == Fill(Num(1), Num(10), Num(10))
Fills ==
  {PlainFill,
   Fill(Num(2), Num(20), Num(40)),
   Fill(Text(<<"x">>), Num(10), Num(10)),      \* quantity is not a number
   Fill(Num(2), Text(<<"x">>), Num(40)),       \* price is not a number
   Fill(NaN, Num(20), Num(20)),                \* quantity cell empty
   Fill(Num(1), Num(10), Num(0))}              \* zero notional

Order(sym, t, o, sd, f) ==
  [symbol |-> sym, time |-> t, ordno |-> o, side |-> sd,
   qty |-> f.qty, price |-> f.price, amount |-> f.amount]

Orders ==
  {Order(sym, t, OrderId, sd, PlainFill) : sym \in Symbols, t \in Times, sd \in Sides}
  \cup {Order(sym, t, OrderId, sd, f) :
          sym \in Symbols, t \in Times, sd \in {BuyOpenLong, SellCloseLong}, f \in Fills}
  \cup {Order(NaN, Num(1), OrderId, BuyOpenLong, PlainFill),
        Order(Text(<<"E">>), NaN, OrderId, BuyOpenLong, PlainFill),
        Order(Text(<<"E">>), Num(1), NaN, BuyOpenLong, PlainFill),
        Order(Text(<<"E">>), Num(1), Text(HeaderText), BuyOpenLong, PlainFill)}

NetIdle ==
  /\ entry = "none" /\ fieldnames = [none |-> TRUE, names |-> {}] /\ rows = <<>>
  /\ pc = "idle" /\ idx = 0 /\ totals = EmptyTotals /\ order = <<>>
  /\ error = {} /\ output = <<>>

PosInit ==
  /\ df \in SeqsUpTo(Orders, MaxOrders)
  /\ df_clean = <<>>
  /\ symbols = <<>>
  /\ si = 0
  /\ frames = <<>>
  /\ trades = <<>>
  /\ ppc = "read"
  /\ NetIdle

\* ------------------------------------------------------------------ actions
\* lines 20-35
CleanData ==
  /\ ppc = "read"
  /\ df_clean' = Clean(df)
  /\ symbols' = unique(Clean(df))
  /\ ppc' = "loop"
  /\ UNCHANGED <<df, si, frames, trades>>
  /\ UNCHANGED netvars

\* one iteration of the loop of lines 37-111
ProcessSymbol ==
  /\ ppc = "loop"
  /\ si < Len(symbols)
  /\ si' = si + 1
  /\ LET symbol == symbols[si + 1] IN
     IF isna(symbol)
     THEN UNCHANGED <<frames, trades, ppc>>
     ELSE \E sorted \in SortedBySymbol(df_clean, symbol) :
            LET symbol_df == SelectSeq(sorted, PositiveAmount) IN
            IF Len(symbol_df) = 0
            THEN UNCHANGED <<frames, trades, ppc>>
            ELSE IF FirstOrderRaises(symbol_df)
            THEN \* TypeError, caught at line 137: sys.exit(1)
                 /\ ppc' = "exit"
                 /\ UNCHANGED <<frames, trades>>
            ELSE /\ trades' = Append(trades, Summary(symbol, symbol_df))
                 /\ frames' = Append(frames, Frame(symbol_df))
                 /\ UNCHANGED ppc
  /\ UNCHANGED <<df, df_clean, symbols>>
  /\ UNCHANGED netvars

\* lines 113-132: the summaries are saved and returned
Save ==
  /\ ppc = "loop"
  /\ si = Len(symbols)
  /\ ppc' = "done"
  /\ UNCHANGED <<df, df_clean, symbols, si, frames, trades>>
  /\ UNCHANGED netvars

PosNext == CleanData \/ ProcessSymbol \/ Save

SpecPos == PosInit /\ [][PosNext]_vars

\* =================================================================
\* Properties of process_excel.py
\* =================================================================
InFrame(frame, r) == \E j \in 1..Len(frame) : frame[j] = r

\* positions in df_clean of the rows of `symbol` that pass the notional > 0 filter
Survivors(symbol) ==
  {j \in 1..Len(df_clean) :
     /\ df_clean[j].symbol = symbol
     /\ to_numeric(df_clean[j].amount).ok
     /\ to_numeric(df_clean[j].amount).v > 0}

HasMarker(side, m) == side.k = "str" /\ Contains(side.s, m)

\* C6: the direction of a summary is that of the side tag of the earliest
\* row surviving the notional > 0 filter (long iff it contains the buy or the
\* open-long marker), whatever the later rows say, and the profit amount is
\* close_total - open_total for long, open_total - close_total for short.
C6_DirectionFromFirstRow ==
  \A i \in 1..Len(trades) :
    LET t == trades[i]
        symbol_df == frames[i].symbol_df
        first == symbol_df[1]
    IN /\ Len(symbol_df) = Cardinality(Survivors(t.symbol))
       /\ \A j \in Survivors(t.symbol) :
            /\ InFrame(symbol_df, df_clean[j])
            /\ first.time.v <= df_clean[j].time.v
       /\ t.direction =
            IF HasMarker(first.side, buy) \/ HasMarker(first.side, open_long)
            THEN "long" ELSE "short"
       /\ t.profit_amount =
            IF t.direction = "long"
            THEN t.close_total_amount - t.open_total_amount
            ELSE t.open_total_amount - t.close_total_amount

\* a long summary whose later row carries a sell tag, with a non-zero profit
C6_Witness ==
  \E i \in 1..Len(trades) :
    /\ trades[i].direction = "long"
    /\ Len(frames[i].symbol_df) = 2
    /\ frames[i].symbol_df[1].time.v < frames[i].symbol_df[2].time.v
    /\ ~HasMarker(frames[i].symbol_df[2].side, buy)
    /\ HasMarker(frames[i].symbol_df[2].side, sell)
    /\ trades[i].profit_amount > 0

SummariesOf(symbol) == {i \in 1..Len(trades) : trades[i].symbol = symbol}

\* C7 (as claimed): when the run has ended, a contract without a row of
\* positive notional has no summary and every other contract has exactly one;
\* with an empty opening leg the open figures and the rate are zero, with an
\* empty closing leg the close time is the open time and close figures zero.
C7_OneSummaryOrNone ==
  (ppc \in {"done", "exit"}) =>
    /\ \A k \in 1..Len(symbols) :
         ~isna(symbols[k]) =>
           Cardinality(SummariesOf(symbols[k])) =
             IF Survivors(symbols[k]) = {} THEN 0 ELSE 1
    /\ \A i \in 1..Len(trades) :
         /\ Len(frames[i].open_orders) = 0 =>
              /\ trades[i].open_avg_price.n = 0
              /\ trades[i].open_total_amount = 0
              /\ trades[i].profit_rate.n = 0
         /\ Len(frames[i].close_orders) = 0 =>
              /\ trades[i].end = trades[i].start
              /\ trades[i].close_avg_price.n = 0
              /\ trades[i].close_total_amount = 0

PositiveQty(r) == to_numeric(r.qty).ok /\ to_numeric(r.qty).v > 0

\* C8 (as claimed): every surviving row of positive quantity is in exactly
\* one of open_orders and close_orders.
C8_ExactlyOneLeg ==
  \A i \in 1..Len(frames) :
    \A j \in 1..Len(frames[i].symbol_df) :
      LET r == frames[i].symbol_df[j] IN
        PositiveQty(r) =>
          (InFrame(frames[i].open_orders, r) # InFrame(frames[i].close_orders, r))

BothParse(r) == to_numeric(r.price).ok /\ to_numeric(r.qty).ok

\* the figures of a leg over its rows with parseable price and quantity only
LegAsClaimed(avg, total, orders) ==
  LET restricted == SelectSeq(orders, BothParse)
      sumq == SumQty(restricted)
  IN /\ IF sumq > 0
        THEN avg.n * sumq = SumPriceQty(restricted) * avg.d
        ELSE avg.n = 0
     /\ avg.d > 0
     /\ total = SumAmount(restricted)

\* C9 (as claimed): average price and total of each leg are taken over
\* exactly the rows with parseable price and parseable quantity.
C9_WeightedAverageOverParseable ==
  \A i \in 1..Len(trades) :
    /\ LegAsClaimed(trades[i].open_avg_price, trades[i].open_total_amount,
                    frames[i].open_orders)
    /\ LegAsClaimed(trades[i].close_avg_price, trades[i].close_total_amount,
                    frames[i].close_orders)

====
